---- MODULE Spec2Model ----
(***************************************************************************)
(* bernik86/sum-of-minterms: src/sum_of_min_terms.py                       *)
(*                                                                         *)
(* A boolean expression is text; text is modelled as a sequence of         *)
(* one-character strings, so that indexing, slicing, counting and          *)
(* splitting are computed as the Python code computes them.  Python's      *)
(* 0-based indices are kept: At(s, i) is s[i], Slice(s, a, b) is s[a:b].   *)
(***************************************************************************)
EXTENDS Integers, Sequences, FiniteSets, TLC

VARIABLES
    raw,          \* the text handed to Gate(...) (args.function)
    root_expression,  \* self.expression of the root Gate, assigned before any check
    pc,           \* position of the run: "start", "built", "tabled", "minterms", "regen", "error"
    circuit,      \* the Gate tree (with each node's cached output), None before construction
    truth_table,  \* circuit.truth_table
    inputs,       \* the dict given to the last Gate.update call
    min_terms,    \* the string returned by build_minterms
    regen,        \* the truth table regenerated from min_terms (or the error raised)
    err,          \* the exception that ended the run, "none" otherwise
    lines,        \* the lines of the table file, each a sequence of integer tokens
    symbols       \* the input_symbols argument of build_minterms (NoSymbols for None)

vars == <<raw, root_expression, pc, circuit, truth_table, inputs, min_terms, regen, err, lines, symbols>>

(***************************************************************************)
(* Bounds of the model.                                                    *)
(***************************************************************************)
MaxLen == 5      \* longest expression over the grammar's own symbols
MaxRaw == 3      \* longest expression over the raw (user-typed) symbols
MaxInp == 1      \* most input columns of a table file (beyond the example files)
MaxExtra == 1    \* most lines a table file has beyond 2^n

(***************************************************************************)
(* Text helpers (Python str operations).                                   *)
(***************************************************************************)
ascii_uppercase ==
    <<"A","B","C","D","E","F","G","H","I","J","K","L","M",
      "N","O","P","Q","R","S","T","U","V","W","X","Y","Z">>

ascii_lowercase ==
    <<"a","b","c","d","e","f","g","h","i","j","k","l","m",
      "n","o","p","q","r","s","t","u","v","w","x","y","z">>

Range(s) == {s[i] : i \in DOMAIN s}

isalpha(c) == c \in Range(ascii_uppercase) \cup Range(ascii_lowercase)

\* ord(c) for an upper-case letter, relative to "A" = 1
Ord(c) == CHOOSE i \in DOMAIN ascii_uppercase : ascii_uppercase[i] = c

UpperChar(c) ==
    IF c \in Range(ascii_lowercase)
    THEN ascii_uppercase[CHOOSE i \in DOMAIN ascii_lowercase : ascii_lowercase[i] = c]
    ELSE c

upper(s) == [i \in DOMAIN s |-> UpperChar(s[i])]

At(s, i) == s[i + 1]

Slice(s, a, b) == SubSeq(s, a + 1, b)

SliceFrom(s, a) == SubSeq(s, a + 1, Len(s))

count(s, c) == Cardinality({i \in DOMAIN s : s[i] = c})

\* s.replace(c, "")
remove(s, c) == SelectSeq(s, LAMBDA x : x # c)

\* s.replace(c, d) for single characters
replace(s, c, d) == [i \in DOMAIN s |-> IF s[i] = c THEN d ELSE s[i]]

RECURSIVE lstrip(_, _)
lstrip(s, c) == IF s # <<>> /\ Head(s) = c THEN lstrip(Tail(s), c) ELSE s

RECURSIVE rstrip(_, _)
rstrip(s, c) ==
    IF s # <<>> /\ s[Len(s)] = c THEN rstrip(SubSeq(s, 1, Len(s) - 1), c) ELSE s

\* s.strip(c): every leading and trailing c is removed
strip(s, c) == rstrip(lstrip(s, c), c)

\* s.find(c), 0-based; only used when c occurs in s
find(s, c) == (CHOOSE i \in DOMAIN s : s[i] = c /\ \A j \in 1..(i - 1) : s[j] # c) - 1

Reverse(s) == [i \in DOMAIN s |-> s[Len(s) + 1 - i]]

(***************************************************************************)
(* Errors: a raised exception is a record with the single field error.     *)
(***************************************************************************)
Raise(kind) == [error |-> kind]

IsErr(x) == "error" \in DOMAIN x

(***************************************************************************)
(* 4.1 Normalizer: normalize_bool_fct_str                                  *)
(***************************************************************************)
Clean(fct_str) ==
    strip(strip(replace(remove(remove(upper(fct_str), " "), "\\"), "!", "'"), "*"), "+")

NeedsAnd(sym_i, sym_i1) ==
    \/ (isalpha(sym_i) \/ sym_i = "'") /\ (isalpha(sym_i1) \/ sym_i1 = "(")
    \/ sym_i = ")" /\ isalpha(sym_i1)

\* pos: the 0-based indices i after which "*" is inserted, ascending
RECURSIVE InsertPositions(_, _)
InsertPositions(fct_str, i) ==
    IF i >= Len(fct_str) - 1 THEN <<>>
    ELSE (IF NeedsAnd(At(fct_str, i), At(fct_str, i + 1)) THEN <<i>> ELSE <<>>)
         \o InsertPositions(fct_str, i + 1)

InsertionOrderForward(pos) == pos

\* for i in reversed(pos)
InsertionOrder(pos) == Reverse(pos)

RECURSIVE ApplyInsertions(_, _)
ApplyInsertions(fct_str, order) ==
    IF order = <<>> THEN fct_str
    ELSE LET i == Head(order)
         IN ApplyInsertions(Slice(fct_str, 0, i + 1) \o <<"*">> \o SliceFrom(fct_str, i + 1),
                            Tail(order))

normalize_bool_fct_str(fct_str) ==
    LET cleaned == Clean(fct_str)
    IN ApplyInsertions(cleaned, InsertionOrder(InsertPositions(cleaned, 0)))

(***************************************************************************)
(* 4.2 Parser: parse_outer_paranthesis and Gate.__init__                   *)
(***************************************************************************)
RECURSIVE ScanPar(_, _, _, _)
ScanPar(expr, i, i_open, cnt) ==
    IF i >= Len(expr) THEN [i_open |-> i_open, i_close |-> -1]
    ELSE LET sym == At(expr, i)
             o1 == IF sym = "(" /\ cnt = 0 THEN i ELSE i_open
             c1 == IF sym = "(" THEN cnt + 1 ELSE cnt
         IN IF sym = ")"
            THEN IF c1 - 1 = 0 THEN [i_open |-> o1, i_close |-> i]
                 ELSE IF o1 = -1 THEN Raise("InvalidParenthesis")
                 ELSE ScanPar(expr, i + 1, o1, c1 - 1)
            ELSE ScanPar(expr, i + 1, o1, c1)

parse_outer_paranthesis(expr) == ScanPar(expr, 0, -1, 0)

\* Python values held in Gate.output: the ints 0/1 and the bools False/True
PyInt(n) == [type |-> "int", val |-> n]

PyBool(n) == [type |-> "bool", val |-> n]

Truthy(v) == v.val # 0

None == [operator |-> "None"]

IsNone(g) == g.operator = "None"

Node(op, expr, g1, g2) ==
    [expression |-> expr, operator |-> op, inp_1 |-> g1, inp_2 |-> g2, output |-> PyInt(0)]

\* a constructor call that raises makes the enclosing constructor raise the same
Unary(op, expr, g1) == IF IsErr(g1) THEN g1 ELSE Node(op, expr, g1, None)

Binary(op, expr, g1, g2) ==
    IF IsErr(g1) THEN g1 ELSE IF IsErr(g2) THEN g2 ELSE Node(op, expr, g1, g2)

LeadingOperators == {"'", "*", "+", "!"}

SplitAt(expr, i_open, i_close) ==
    LET split_at == IF i_open > 0 THEN i_open - 2 ELSE i_close
    IN IF At(expr, split_at + 1) \in {"'", "!"} THEN split_at + 1 ELSE split_at

Expr1OffByOne(expr, split_at) == Slice(expr, 0, split_at)

Expr1(expr, split_at) == Slice(expr, 0, split_at + 1)

Expr2(expr, split_at) == SliceFrom(expr, split_at + 1)

\* if par_open := count("("): ... if par_open != par_closed: raise
RaisesUnmatched(expr) ==
    count(expr, "(") # 0 /\ count(expr, "(") # count(expr, ")")

RaisesLeadingAtEnd(expr) == At(expr, Len(expr) - 1) \in LeadingOperators

RaisesLeading(expr) == At(expr, 0) \in LeadingOperators

RECURSIVE Gate(_)
Gate(expression) ==
    LET expr == normalize_bool_fct_str(strip(expression, " "))
        len_expr == Len(expr)
    IN
    IF len_expr = 0 THEN Raise("IndexError")
    ELSE IF RaisesLeading(expr) THEN Raise("LeadingOperator")
    ELSE IF RaisesUnmatched(expr) THEN Raise("UnmatchedParenthesis")
    ELSE IF count(expr, "(") # 0 THEN
        LET p == parse_outer_paranthesis(expr)
        IN IF IsErr(p) THEN p
           ELSE IF p.i_open = 0 /\ p.i_close = len_expr - 2
                THEN Unary("NOT", expr, Gate(Slice(expr, 1, len_expr - 2)))
           ELSE IF p.i_open = 0 /\ p.i_close = len_expr - 1
                THEN Unary("UNITY", expr, Gate(Slice(expr, 1, len_expr - 1)))
           ELSE LET split_at == SplitAt(expr, p.i_open, p.i_close)
                    expr_1 == Expr1(expr, split_at)
                    expr_2 == Expr2(expr, split_at)
                    op == At(expr, split_at + 1)
                IN IF op \notin {"*", "+"} THEN Raise("UnsupportedOperator")
                   ELSE Binary(IF op = "*" THEN "AND" ELSE "OR", expr,
                               IF expr_1 # <<>> THEN Gate(expr_1) ELSE None,
                               IF expr_2 # <<>> THEN Gate(expr_2) ELSE None)
    ELSE IF count(expr, "+") # 0 THEN
        LET k == find(expr, "+")
        IN Binary("OR", expr, Gate(Slice(expr, 0, k)), Gate(SliceFrom(expr, k + 1)))
    ELSE IF count(expr, "*") # 0 THEN
        LET k == find(expr, "*")
        IN Binary("AND", expr, Gate(Slice(expr, 0, k)), Gate(SliceFrom(expr, k + 1)))
    ELSE IF count(expr, "'") + count(expr, "!") # 0 THEN
        Unary(IF (count(expr, "'") + count(expr, "!")) % 2 # 0 THEN "NOT" ELSE "UNITY",
              expr, Gate(<<At(expr, 0)>>))
    ELSE Node("INPUT", expr, None, None)

(***************************************************************************)
(* 4.3 Evaluator: Gate.update                                              *)
(***************************************************************************)
\* a and b: the first operand when it is falsy, else the second
PyAnd(a, b) == IF Truthy(a) THEN b ELSE a

\* a or b: the first operand when it is truthy, else the second
PyOr(a, b) == IF Truthy(a) THEN a ELSE b

PyNot(a) == PyBool(IF Truthy(a) THEN 0 ELSE 1)

NotOfOwnOutput(self) == PyNot(self.output)

\* self.output = not self.inp_1.output
NotOutput(self) == PyNot(self.inp_1.output)

\* The result of update: the tree as the call left it, and the exception it
\* raised ("none" when it returned).  A KeyError leaves the nodes updated
\* before it with their new outputs.
RECURSIVE UpdateGate(_, _)
UpdateGate(self, inp) ==
    LET r1 == IF ~IsNone(self.inp_1) THEN UpdateGate(self.inp_1, inp)
              ELSE [gate |-> None, exc |-> "none"]
        s1 == [self EXCEPT !.inp_1 = r1.gate]
    IN IF r1.exc # "none" THEN [gate |-> s1, exc |-> r1.exc]
       ELSE
       LET r2 == IF ~IsNone(self.inp_2) THEN UpdateGate(self.inp_2, inp)
                 ELSE [gate |-> None, exc |-> "none"]
           s2 == [s1 EXCEPT !.inp_2 = r2.gate]
       IN IF r2.exc # "none" THEN [gate |-> s2, exc |-> r2.exc]
          ELSE
          CASE s2.operator = "AND" ->
                 [gate |-> [s2 EXCEPT !.output = PyAnd(s2.inp_1.output, s2.inp_2.output)],
                  exc |-> "none"]
            [] s2.operator = "OR" ->
                 [gate |-> [s2 EXCEPT !.output = PyOr(s2.inp_1.output, s2.inp_2.output)],
                  exc |-> "none"]
            [] s2.operator = "NOT" ->
                 [gate |-> [s2 EXCEPT !.output = NotOutput(s2)], exc |-> "none"]
            [] s2.operator = "INPUT" ->
                 IF s2.expression \in DOMAIN inp
                 THEN [gate |-> [s2 EXCEPT !.output = inp[s2.expression]], exc |-> "none"]
                 ELSE [gate |-> s2, exc |-> "MissingVariable"]
            [] s2.operator = "UNITY" ->
                 [gate |-> [s2 EXCEPT !.output = s2.inp_1.output], exc |-> "none"]

(***************************************************************************)
(* 4.4 Truth-table enumerator                                              *)
(***************************************************************************)
\* sorted(list(input_symbols), reverse=True)
RECURSIVE SortedReverse(_)
SortedReverse(S) ==
    IF S = {} THEN <<>>
    ELSE LET m == CHOOSE x \in S : \A y \in S : Ord(y) <= Ord(x)
         IN <<m>> \o SortedReverse(S \ {m})

extract_input_symbols(fct_str) ==
    SortedReverse({fct_str[i] : i \in {j \in DOMAIN fct_str : isalpha(fct_str[j])}})

\* itertools.product([0, 1], repeat=n) as the sequence it yields
RECURSIVE product(_)
product(n) ==
    IF n = 0 THEN << <<>> >>
    ELSE LET rest == product(n - 1)
         IN [i \in 1..Len(rest) |-> <<0>> \o rest[i]] \o [i \in 1..Len(rest) |-> <<1>> \o rest[i]]

\* dict(zip(input_symbols, inp)); a key is the symbol as a one-character string
Dict(input_symbols, inp) ==
    [key \in {<<input_symbols[i]>> : i \in DOMAIN input_symbols} |->
        PyInt(inp[CHOOSE i \in DOMAIN input_symbols : input_symbols[i] = key[1]])]

normalize_bool(value) ==
    IF value = PyBool(1) THEN 1
    ELSE IF value = PyBool(0) THEN 0
    ELSE value.val

\* the for loop of generate_truth_table from the k-th tuple (0-based) on;
\* last is the dict of the latest update call
RECURSIVE GenerateRows(_, _, _, _, _, _)
GenerateRows(gate, input_symbols, prod, k, table, last) ==
    IF k >= Len(prod) THEN [gate |-> gate, table |-> table, exc |-> "none", inputs |-> last]
    ELSE LET inp == At(prod, k)
             d == Dict(input_symbols, inp)
             r == UpdateGate(gate, d)
         IN IF r.exc # "none"
            THEN [gate |-> r.gate, table |-> table, exc |-> r.exc, inputs |-> d]
            ELSE GenerateRows(r.gate, input_symbols, prod, k + 1,
                              Append(table, <<inp, normalize_bool(r.gate.output)>>), d)

generate_truth_table(gate, last) ==
    LET input_symbols == extract_input_symbols(gate.expression)
        n_sym == Len(input_symbols)
    IN GenerateRows(gate, input_symbols, product(n_sym), 0, <<>>, last)

(***************************************************************************)
(* 4.5 Minterm builder: build_minterms and sum_of_min_terms                *)
(***************************************************************************)
\* An Optional[list[str]] argument: <<>> is None, <<l>> is the list l
NoSymbols == <<>>

Some(l) == <<l>>

RECURSIVE Join(_, _)
Join(sep, strs) ==
    IF strs = <<>> THEN <<>>
    ELSE IF Len(strs) = 1 THEN strs[1]
    ELSE strs[1] \o sep \o Join(sep, Tail(strs))

RECURSIVE Concat(_)
Concat(strs) == IF strs = <<>> THEN <<>> ELSE Head(strs) \o Concat(Tail(strs))

\* string.ascii_uppercase[:n_sym] reversed
DefaultSymbols(n_sym) == Reverse(SubSeq(ascii_uppercase, 1, n_sym))

MintermRowInverted(inp, input_symbols) ==
    [i \in DOMAIN inp |-> IF inp[i] # 0 THEN <<input_symbols[i], "'">> ELSE <<input_symbols[i]>>]

\* the list comprehension: one piece per column
MintermRow(inp, input_symbols) ==
    [i \in DOMAIN inp |-> IF inp[i] # 0 THEN <<input_symbols[i]>> ELSE <<input_symbols[i], "'">>]

RECURSIVE CollectMinterms(_, _)
CollectMinterms(table, input_symbols) ==
    IF table = <<>> THEN <<>>
    ELSE LET line == Head(table)
         IN (IF line[2] # 0 THEN <<Concat(MintermRow(line[1], input_symbols))>> ELSE <<>>)
            \o CollectMinterms(Tail(table), input_symbols)

TermOrderAsCollected(terms) == terms

\* min_terms = min_terms[::-1]
TermOrder(terms) == Reverse(terms)

build_minterms(table, input_symbols) ==
    LET syms == IF input_symbols = NoSymbols
                THEN DefaultSymbols(Len(table[1][1]))
                ELSE input_symbols[1]
    IN Join(<<" ", "+", " ">>, TermOrder(CollectMinterms(table, syms)))

Prefix == <<"F", " ", "=", " ">>

(***************************************************************************)
(* 4.6 External table loader: read_table_from_file and check_table         *)
(***************************************************************************)
\* a line is the sequence of its whitespace-separated integer tokens
parse_line(line) == <<SubSeq(line, 1, Len(line) - 1), line[Len(line)]>>

RECURSIVE Pow2(_)
Pow2(n) == IF n = 0 THEN 1 ELSE 2 * Pow2(n - 1)

ReportedLineZeroBased(i) == i

\* f"... in line {i + 1}"
ReportedLine(i) == i + 1

RECURSIVE CheckRows(_, _, _)
CheckRows(table, prod, i) ==
    IF i >= Len(prod) THEN [error |-> "none"]
    ELSE IF At(table, i)[1] # At(prod, i)
         THEN [error |-> "InconsistentRow", line |-> ReportedLine(i)]
         ELSE CheckRows(table, prod, i + 1)

check_table(table, n_inp) == CheckRows(table, product(n_inp), 0)

read_table_from_file(file) ==
    LET line_1 == parse_line(file[1])
        n_inp == Len(line_1[1])
        table == [i \in DOMAIN file |-> parse_line(file[i])]
    IN IF Len(file) < Pow2(n_inp) THEN [error |-> "IncompleteTable"]
       ELSE IF Len(file) > Pow2(n_inp) THEN [error |-> "OverdefinedTable"]
       ELSE LET chk == check_table(table, n_inp)
            IN IF chk.error # "none" THEN chk ELSE [error |-> "none", table |-> table]

(***************************************************************************)
(* Inputs of the model.                                                    *)
(***************************************************************************)
SeqsUpTo(S, n) == UNION {[1..k -> S] : k \in 0..n}

GrammarSymbols == {"A", "B", "'", "*", "+", "(", ")"}

RawSymbols == GrammarSymbols \cup {"a", "!", " ", "\\"}

\* the expressions the documentation works through
Examples ==
    { <<"a", "!", "b", " ", "+", " ", "c">>,
      <<"A", "+", "B">>,
      <<"X", "*", "(", "Y", ")", "+", "Z">>,
      <<"X", "+", "Y", "*", "(", "Z", ")">>,
      <<"(", "A", "+", "B", ")", "'", "+", "C">>,
      <<"(", "(", "A", ")", "+", "B", ")", "'", "C">>,
      <<"(", "A", "B", ")", "'", "+", "A", "'", "B">> }

Texts(maxLen, maxRaw) ==
    SeqsUpTo(GrammarSymbols, maxLen) \cup SeqsUpTo(RawSymbols, maxRaw) \cup Examples

Bits == {0, 1}

\* the lines of at most w tokens, each 0 or 1
FileLines(w) == UNION {[1..k -> Bits] : k \in 1..w}

\* the files the documentation works through: two inputs with 3, 4 and 5
\* rows, and a second line out of order
ExampleFiles ==
    { << <<0, 0, 0>>, <<0, 1, 1>>, <<1, 0, 1>> >>,
      << <<0, 0, 0>>, <<0, 1, 1>>, <<1, 0, 1>>, <<1, 1, 1>> >>,
      << <<0, 0, 1>>, <<0, 1, 0>>, <<1, 0, 0>>, <<1, 1, 1>> >>,
      << <<0, 0, 0>>, <<0, 1, 1>>, <<1, 0, 1>>, <<1, 1, 1>>, <<1, 1, 0>> >>,
      << <<0, 0, 0>>, <<1, 0, 1>>, <<0, 1, 1>>, <<1, 1, 1>> >>,
      << <<0, 0, 0>>, <<1, 1, 1>>, <<1, 0, 1>>, <<1, 0, 1>> >> }

NoErr == [error |-> "none"]

NoRegen == [error |-> "unset"]

(***************************************************************************)
(* Expression mode: Gate(...), Gate.update, generate_truth_table,          *)
(* sum_of_min_terms, and the regeneration of the table from the minterms.  *)
(***************************************************************************)
Init ==
    /\ raw \in Texts(MaxLen, MaxRaw)
    /\ root_expression = <<>>
    /\ pc = "start"
    /\ circuit = None
    /\ truth_table = <<>>
    /\ inputs = <<>>
    /\ min_terms = <<>>
    /\ regen = NoRegen
    /\ err = NoErr
    /\ lines = <<>>
    /\ symbols = NoSymbols

\* circuit = Gate(args.function)
Construct ==
    /\ pc = "start"
    /\ root_expression' = normalize_bool_fct_str(strip(raw, " "))
    /\ LET g == Gate(raw)
       IN IF IsErr(g)
          THEN pc' = "error" /\ err' = g /\ circuit' = circuit
          ELSE pc' = "built" /\ err' = err /\ circuit' = g
    /\ UNCHANGED <<raw, truth_table, inputs, min_terms, regen, lines, symbols>>

\* the expressions of the INPUT leaves: the keys update looks up
RECURSIVE InputKeys(_)
InputKeys(g) ==
    IF IsNone(g) THEN {}
    ELSE IF g.operator = "INPUT" THEN {g.expression}
    ELSE InputKeys(g.inp_1) \cup InputKeys(g.inp_2)

\* the complete assignments of a tree: a 0/1 value for every key it looks up
Assignments(g) == [InputKeys(g) -> {PyInt(0), PyInt(1)}]

\* circuit.update(inputs) with a complete assignment
Update ==
    /\ pc \in {"built", "tabled"}
    /\ \E a \in Assignments(circuit) :
         LET r == UpdateGate(circuit, a)
         IN /\ r.exc = "none"
            /\ circuit' = r.gate
            /\ inputs' = a
    /\ UNCHANGED <<raw, root_expression, pc, truth_table, min_terms, regen, err, lines, symbols>>

\* generate_truth_table(circuit)
GenerateTruthTable ==
    /\ pc \in {"built", "tabled"}
    /\ LET r == generate_truth_table(circuit, inputs)
       IN /\ circuit' = r.gate
          /\ inputs' = r.inputs
          /\ IF r.exc = "none"
             THEN pc' = "tabled" /\ truth_table' = r.table /\ err' = err
             ELSE pc' = "error" /\ truth_table' = truth_table /\ err' = Raise(r.exc)
    /\ UNCHANGED <<raw, root_expression, min_terms, regen, lines, symbols>>

\* sum_of_min_terms(circuit)
SumOfMinTerms ==
    /\ pc \in {"built", "tabled"}
    /\ LET r == IF Len(truth_table) = 0
                THEN generate_truth_table(circuit, inputs)
                ELSE [gate |-> circuit, table |-> truth_table, exc |-> "none",
                      inputs |-> inputs]
       IN /\ circuit' = r.gate
          /\ inputs' = r.inputs
          /\ IF r.exc = "none"
             THEN /\ pc' = "minterms"
                  /\ truth_table' = r.table
                  /\ err' = err
                  /\ min_terms' = Prefix \o build_minterms(r.table,
                                     Some(extract_input_symbols(circuit.expression)))
             ELSE /\ pc' = "error"
                  /\ truth_table' = truth_table
                  /\ err' = Raise(r.exc)
                  /\ min_terms' = min_terms
    /\ UNCHANGED <<raw, root_expression, regen, lines, symbols>>

\* the minterm string without "F = ", parsed as a new expression and tabulated
Regenerate ==
    /\ pc = "minterms"
    /\ LET g == Gate(SliceFrom(min_terms, Len(Prefix)))
       IN IF IsErr(g) THEN regen' = g
          ELSE LET r == generate_truth_table(g, <<>>)
               IN regen' = IF r.exc = "none" THEN [error |-> "none", table |-> r.table]
                           ELSE Raise(r.exc)
    /\ pc' = "regen"
    /\ UNCHANGED <<raw, root_expression, circuit, truth_table, inputs, min_terms, err, lines, symbols>>

Next == Construct \/ Update \/ GenerateTruthTable \/ SumOfMinTerms \/ Regenerate

Spec == Init /\ [][Next]_vars

(***************************************************************************)
(* Table-file mode: read_table_from_file then build_minterms(table, None). *)
(* The files are in the documented format (no blank lines): the first line *)
(* has n <= MaxInp input columns, there are up to MaxExtra lines more than *)
(* 2^n, and every further line has up to MaxInp + 1 tokens.                *)
(***************************************************************************)
InitTable ==
    /\ raw = <<>>
    /\ root_expression = <<>>
    /\ circuit = None
    /\ inputs = <<>>
    /\ min_terms = <<>>
    /\ regen = NoRegen
    /\ err = NoErr
    /\ \/ lines \in ExampleFiles
       \/ \E n \in 0..MaxInp :
            \E l \in 1..(Pow2(n) + MaxExtra) :
              \E first \in [1..(n + 1) -> Bits] :
                \E rest \in [1..(l - 1) -> FileLines(MaxInp + 1)] :
                  lines = <<first>> \o rest
    /\ pc = "start"
    /\ truth_table = <<>>
    /\ symbols = NoSymbols

\* table = read_table_from_file(args.read_table)
ReadTableFromFile ==
    /\ pc = "start"
    /\ LET r == read_table_from_file(lines)
       IN IF r.error # "none"
          THEN pc' = "error" /\ err' = r /\ truth_table' = truth_table
          ELSE pc' = "tabled" /\ err' = err /\ truth_table' = r.table
    /\ UNCHANGED <<raw, root_expression, circuit, inputs, min_terms, regen, lines, symbols>>

\* min_terms = build_minterms(table, input_symbols)
BuildMinterms ==
    /\ pc = "tabled"
    /\ min_terms' = build_minterms(truth_table, symbols)
    /\ pc' = "minterms"
    /\ UNCHANGED <<raw, root_expression, circuit, truth_table, inputs, regen, err, lines, symbols>>

NextTable == ReadTableFromFile \/ BuildMinterms

SpecTable == InitTable /\ [][NextTable]_vars

(***************************************************************************)
(* build_minterms applied to any table of at most MaxRows rows and         *)
(* MaxArity columns, canonical or not, with any symbol list that fits it   *)
(* or None (a table is needed then: table[0] is read).                     *)
(***************************************************************************)
MaxArity == 2    \* most input columns of a table handed to build_minterms directly
MaxRows == 3     \* most rows of such a table

TableSymbols == {"A", "B"}

InitMinterms ==
    /\ raw = <<>>
    /\ root_expression = <<>>
    /\ circuit = None
    /\ inputs = <<>>
    /\ min_terms = <<>>
    /\ regen = NoRegen
    /\ err = NoErr
    /\ lines = <<>>
    /\ pc = "tabled"
    /\ \E n \in 0..MaxArity :
         \E l \in 0..MaxRows :
           /\ truth_table \in [1..l -> ([1..n -> Bits] \X Bits)]
           /\ symbols \in {Some(x) : x \in [1..n -> TableSymbols]}
                          \cup (IF l > 0 THEN {NoSymbols} ELSE {})

NextMinterms == BuildMinterms

SpecMinterms == InitMinterms /\ [][NextMinterms]_vars

(***************************************************************************)
(* Properties.                                                             *)
(***************************************************************************)
Letters == Range(ascii_uppercase)

\* nesting depth in front of position i (1-based)
Depth(e, i) ==
    Cardinality({j \in 1..(i - 1) : e[j] = "("}) - Cardinality({j \in 1..(i - 1) : e[j] = ")"})

TopLevel(e, c) == {i \in DOMAIN e : e[i] = c /\ Depth(e, i) = 0}

Last(S) == CHOOSE i \in S : \A j \in S : j <= i

\* The value (0 or 1) of expression e under assignment a in the grammar
\*   Expr ::= Term ("+" Term)*   Term ::= Factor ("*" Factor)*
\*   Factor ::= Atom "'"*        Atom ::= letter | "(" Expr ")"
\* and -1 when e is not an expression of the grammar.
RECURSIVE RefValue(_, _)
RefValue(e, a) ==
    IF e = <<>> THEN -1
    ELSE IF TopLevel(e, "+") # {} THEN
        LET i == Last(TopLevel(e, "+"))
            l == RefValue(SubSeq(e, 1, i - 1), a)
            r == RefValue(SubSeq(e, i + 1, Len(e)), a)
        IN IF l = -1 \/ r = -1 THEN -1 ELSE IF l = 1 \/ r = 1 THEN 1 ELSE 0
    ELSE IF TopLevel(e, "*") # {} THEN
        LET i == Last(TopLevel(e, "*"))
            l == RefValue(SubSeq(e, 1, i - 1), a)
            r == RefValue(SubSeq(e, i + 1, Len(e)), a)
        IN IF l = -1 \/ r = -1 THEN -1 ELSE IF l = 1 /\ r = 1 THEN 1 ELSE 0
    ELSE IF e[Len(e)] = "'" THEN
        LET v == RefValue(SubSeq(e, 1, Len(e) - 1), a)
        IN IF v = -1 THEN -1 ELSE 1 - v
    ELSE IF e[1] = "(" /\ e[Len(e)] = ")" THEN RefValue(SubSeq(e, 2, Len(e) - 1), a)
    ELSE IF Len(e) = 1 /\ e[1] \in Letters /\ e \in DOMAIN a THEN a[e].val
    ELSE -1

Bit(v) == IF Truthy(v) THEN 1 ELSE 0

Updated == ~IsNone(circuit) /\ pc # "error" /\ DOMAIN inputs # {}

\* C1: after Gate.update(assignment) on an accepted expression, the root's
\* output is the value of the expression read with complement binding
\* tightest, then AND, then OR, and parentheses grouping.
C1_GrammarReading ==
    (Updated /\ RefValue(circuit.expression, inputs) # -1)
        => Bit(circuit.output) = RefValue(circuit.expression, inputs)

\* the k-th tuple (0-based) of n bits, first position most significant
BinaryTuple(k, n) == [j \in 1..n |-> (k \div Pow2(n - j)) % 2]

LettersOf(e) == {e[i] : i \in {j \in DOMAIN e : e[j] \in Letters}}

\* the position of letter c in the descending-alphabetical list of S
RankDescending(c, S) == 1 + Cardinality({d \in S : Ord(d) > Ord(c)})

RowAssignment(k, S) ==
    [key \in {<<c>> : c \in S} |->
        PyInt(BinaryTuple(k, Cardinality(S))[RankDescending(key[1], S)])]

Generated == ~IsNone(circuit) /\ (pc \in {"tabled", "minterms", "regen"} \/ err.error = "MissingVariable")

\* C2: generate_truth_table on an accepted expression with N letters produces
\* 2^N rows; row k holds the N-bit binary form of k, the first symbol of the
\* descending-alphabetical variable list most significant, and the tree's
\* output under that assignment.
C2_CanonicalTable ==
    Generated =>
        LET S == LettersOf(circuit.expression)
            n == Cardinality(S)
        IN /\ pc # "error"
           /\ Len(truth_table) = Pow2(n)
           /\ \A k \in 0..(Pow2(n) - 1) :
                /\ truth_table[k + 1][1] = BinaryTuple(k, n)
                /\ truth_table[k + 1][2] =
                       Bit(UpdateGate(circuit, RowAssignment(k, S)).gate.output)

HasTrueRow(table) == \E i \in DOMAIN table : table[i][2] = 1

\* C3: when the function is not identically false, the Gate built from the
\* minterm string (without "F = ") has a truth table identical to the
\* original's.
C3_RoundTrip ==
    (pc = "regen" /\ HasTrueRow(truth_table))
        => regen = [error |-> "none", table |-> truth_table]

C3_Witness ==
    /\ pc = "regen"
    /\ HasTrueRow(truth_table)
    /\ \E i \in DOMAIN truth_table : truth_table[i][2] = 0
    /\ count(circuit.expression, "(") > 0
    /\ Len(truth_table) = 4
    /\ regen.error = "none"

\* a tree as constructed: every cached output at its initial 0
RECURSIVE Structure(_)
Structure(g) ==
    IF IsNone(g) THEN None
    ELSE [g EXCEPT !.output = PyInt(0),
                   !.inp_1 = Structure(g.inp_1),
                   !.inp_2 = Structure(g.inp_2)]

Constructed == pc # "start" /\ raw # <<>>

\* C4 as stated: a text that begins with *, +, ' or ! always fails with
\* LeadingOperator.
C4_LeadingOperatorAlwaysFails ==
    (Constructed /\ raw[1] \in {"*", "+", "'", "!"}) => err = Raise("LeadingOperator")

Outcome(g) == IF IsErr(g) THEN g ELSE [error |-> "none", gate |-> g]

\* C4 amended: a text that begins with ' or ! always fails with
\* LeadingOperator; a leading * or + in front of a letter or an opening
\* parenthesis is stripped, and the construction ends as it does for the text
\* without it.
C4_LeadingComplementFails ==
    Constructed =>
        /\ raw[1] \in {"'", "!"} => err = Raise("LeadingOperator")
        /\ (raw[1] \in {"*", "+"} /\ Len(raw) > 1 /\ (raw[2] \in Letters \/ raw[2] = "("))
             => /\ IsNone(circuit) = IsErr(Gate(Tail(raw)))
                /\ IsNone(circuit) => err = Gate(Tail(raw))
                /\ ~IsNone(circuit) => Structure(circuit) = Gate(Tail(raw))

C4_Witness ==
    /\ pc = "error"
    /\ Len(raw) > 1
    /\ raw[1] = "!"
    /\ raw[2] \in Letters
    /\ err = Raise("LeadingOperator")

\* C5: build_minterms returns one term per row with output 1, each the
\* symbols in column order (bare for a 1, with ' for a 0), the terms in the
\* reverse of row order joined by " + ", and the empty string without such rows.
RECURSIVE ExpectedTerm(_, _, _)
ExpectedTerm(inp, syms, c) ==
    IF c > Len(inp) THEN <<>>
    ELSE (IF inp[c] = 1 THEN <<syms[c]>> ELSE <<syms[c], "'">>) \o ExpectedTerm(inp, syms, c + 1)

TrueRows(table) == {i \in DOMAIN table : table[i][2] = 1}

\* the row of the j-th term: the true row with j - 1 true rows after it
RowOfTerm(table, j) ==
    CHOOSE i \in TrueRows(table) : Cardinality({k \in TrueRows(table) : k > i}) = j - 1

RECURSIVE ExpectedMinterms(_, _, _)
ExpectedMinterms(table, syms, j) ==
    IF j > Cardinality(TrueRows(table)) THEN <<>>
    ELSE (IF j > 1 THEN <<" ", "+", " ">> ELSE <<>>)
         \o ExpectedTerm(table[RowOfTerm(table, j)][1], syms, 1)
         \o ExpectedMinterms(table, syms, j + 1)

SymbolsUsed ==
    IF symbols = NoSymbols
    THEN [i \in 1..Len(truth_table[1][1]) |-> ascii_uppercase[Len(truth_table[1][1]) + 1 - i]]
    ELSE symbols[1]

\* C5: the string build_minterms returned is the expected one: the terms of
\* the true rows, last true row first, joined by " + ".
C5_Minterms ==
    pc = "minterms" => min_terms = ExpectedMinterms(truth_table, SymbolsUsed, 1)

C5_Witness ==
    /\ pc = "minterms"
    /\ Len(truth_table) = 3
    /\ symbols = Some(<<"B", "A">>)
    /\ min_terms = <<"B", "A", " ", "+", " ", "B", "A", "'", " ", "+", " ", "B", "'", "A">>

\* C6: read_table_from_file fails with IncompleteTable below 2^N lines, with
\* OverdefinedTable above, otherwise with InconsistentRow naming the first
\* line (1-based) whose inputs differ from the canonical tuple of its index;
\* it returns the file's rows in file order only when every line matches.
LineInputs(line) == SubSeq(line, 1, Len(line) - 1)

BadLines == {i \in DOMAIN lines : LineInputs(lines[i]) # BinaryTuple(i - 1, Len(lines[1]) - 1)}

First(S) == CHOOSE i \in S : \A j \in S : i <= j

\* C6: the outcome of read_table_from_file is the one the line count and the
\* first non-canonical line determine.
C6_Loader ==
    (lines # <<>> /\ pc # "start") =>
        LET n == Len(lines[1]) - 1
        IN IF Len(lines) < Pow2(n) THEN pc = "error" /\ err = Raise("IncompleteTable")
           ELSE IF Len(lines) > Pow2(n) THEN pc = "error" /\ err = Raise("OverdefinedTable")
           ELSE IF BadLines # {}
                THEN pc = "error" /\ err = [error |-> "InconsistentRow", line |-> First(BadLines)]
           ELSE /\ pc # "error"
                /\ err = NoErr
                /\ truth_table = [i \in DOMAIN lines |->
                                    <<LineInputs(lines[i]), lines[i][Len(lines[i])]>>]

C6_Witness ==
    /\ pc = "error"
    /\ Len(lines) = 4
    /\ err = [error |-> "InconsistentRow", line |-> 2]
    /\ Cardinality(BadLines) > 1

\* C7: normalize_bool_fct_str returns the cleaned string with exactly one "*"
\* after each position i whose pair (i, i+1) is (letter or ', letter or "(")
\* or (")", letter), and nothing else changed; "a!b + c" gives "A'*B+C".
ImplicitAnd(x, y) ==
    \/ (x \in Letters \/ x = "'") /\ (y \in Letters \/ y = "(")
    \/ x = ")" /\ y \in Letters

RECURSIVE WithAnds(_, _)
WithAnds(s, i) ==
    IF i > Len(s) THEN <<>>
    ELSE <<s[i]>>
         \o (IF i < Len(s) /\ ImplicitAnd(s[i], s[i + 1]) THEN <<"*">> ELSE <<>>)
         \o WithAnds(s, i + 1)

\* C7: self.expression is the cleaned text with the implicit ANDs made explicit.
C7_ImplicitAnd ==
    pc # "start" =>
        /\ root_expression = WithAnds(Clean(strip(raw, " ")), 1)
        /\ raw = <<"a", "!", "b", " ", "+", " ", "c">>
             => root_expression = <<"A", "'", "*", "B", "+", "C">>

C7_Witness ==
    /\ pc # "start"
    /\ Len(root_expression) >= Len(Clean(strip(raw, " "))) + 2
    /\ count(raw, "!") > 0

\* C8: an expression whose numbers of "(" and ")" differ fails with
\* UnmatchedParenthesis, also when it holds ")" but no "(".
C8_UnmatchedRejected ==
    (/\ pc # "start"
     /\ root_expression # <<>>
     /\ root_expression[1] \notin LeadingOperators
     /\ count(root_expression, "(") # count(root_expression, ")"))
        => err = Raise("UnmatchedParenthesis")

\* C9: in every tree that Gate returns, an AND or OR node has two children, a
\* NOT or UNITY node has one, an INPUT node has none.
RECURSIVE WellFormed(_)
WellFormed(g) ==
    CASE g.operator \in {"AND", "OR"} ->
           /\ ~IsNone(g.inp_1) /\ ~IsNone(g.inp_2)
           /\ WellFormed(g.inp_1) /\ WellFormed(g.inp_2)
      [] g.operator \in {"NOT", "UNITY"} ->
           ~IsNone(g.inp_1) /\ IsNone(g.inp_2) /\ WellFormed(g.inp_1)
      [] g.operator = "INPUT" -> IsNone(g.inp_1) /\ IsNone(g.inp_2)
      [] OTHER -> FALSE

\* C9: the constructed tree has no missing and no surplus child.
C9_Children == ~IsNone(circuit) => WellFormed(circuit)

\* a tree built by the split around a parenthesized group
C9_Witness ==
    /\ pc = "built"
    /\ circuit.operator \in {"AND", "OR"}
    /\ count(circuit.expression, "(") > 0
    /\ circuit.inp_2.operator \in {"NOT", "UNITY"}

\* C10: after any sequence of update calls, every node's output is its
\* operator applied to its children's outputs, every INPUT node's output is
\* the last assignment's bit, and operator, expression and children are as
\* constructed.
RECURSIVE Consistent(_, _)
Consistent(g, a) ==
    CASE g.operator = "AND" ->
           /\ g.output = PyAnd(g.inp_1.output, g.inp_2.output)
           /\ Consistent(g.inp_1, a) /\ Consistent(g.inp_2, a)
      [] g.operator = "OR" ->
           /\ g.output = PyOr(g.inp_1.output, g.inp_2.output)
           /\ Consistent(g.inp_1, a) /\ Consistent(g.inp_2, a)
      [] g.operator = "NOT" ->
           g.output = PyNot(g.inp_1.output) /\ Consistent(g.inp_1, a)
      [] g.operator = "UNITY" ->
           g.output = g.inp_1.output /\ Consistent(g.inp_1, a)
      [] g.operator = "INPUT" -> g.output = a[g.expression]

\* C10: the cached outputs are those of the last assignment alone, and the
\* structure is the constructed one.
C10_LastCallOnly ==
    Updated => Consistent(circuit, inputs) /\ Structure(circuit) = Gate(raw)

\* an update with a zero in it after the table's last row (all ones) was evaluated
C10_Witness ==
    /\ pc = "tabled"
    /\ circuit.operator = "OR"
    /\ circuit.inp_1.operator = "NOT"
    /\ Len(truth_table) >= 4
    /\ \E key \in DOMAIN inputs : inputs[key] = PyInt(0)

====
